---- MODULE Spec2Model ----
(***************************************************************************)
(* Model of scripts/dashboard.py: the tables loaded at import time, the    *)
(* pandas transformations applied to them, and the four Dash callbacks.    *)
(*                                                                         *)
(* A DataFrame is a sequence of records (one per row, in row order).  A    *)
(* float produced by pct_change is an extended rational: NaN, +inf, or a   *)
(* fraction n/d with d > 0 (rounding of binary floats is not modelled).    *)
(***************************************************************************)
EXTENDS Integers, Sequences, FiniteSets, TLC

VARIABLES
    cat_month_long,   \* dashboard.py:212, category table with YoY_pct/QoQ_pct/Quarter
    cat_quarter,      \* dashboard.py:212, quarterly aggregate computed at load
    mfr_all,          \* dashboard.py:209, concatenated manufacturer table
    mfr_yoy,          \* dashboard.py:213, Maker/Year/Category aggregate with YoY_pct
    maker_filter,     \* value of the 'maker-filter' dropdown (State/Output/Input)
    result            \* what the most recent callback (or helper call) returned

vars == <<cat_month_long, cat_quarter, mfr_all, mfr_yoy, maker_filter, result>>

-----------------------------------------------------------------------------
(* Bounds of the model *)

\* number of consecutive month columns of the category sheet, from Jan 2021
NMonths == 14
\* largest number of rows of the concatenated manufacturer table
MaxMfrRows == 2
\* longest list handed to map_dropdown_categories_to_codes
MaxSel == 3

-----------------------------------------------------------------------------
(* Text values.  Python compares str by code point; TextOrder lists every  *)
(* text value of the model in that order.                                  *)

None == "<None>"

TextOrder ==
    << "", " 2WT", " TWO WHEELER(T) ", "2WT", "ACME", "BAJAJ", "EV",
       "LIGHT MOTOR VEHICLE", "LMV", "TWO WHEELER(T)" >>

Rank(s) == CHOOSE i \in DOMAIN TextOrder : TextOrder[i] = s

TextLT(a, b) == Rank(a) < Rank(b)

\* str.strip() on the text values of the model: the value without its
\* leading and trailing blanks
Strip(s) ==
    CASE s = " 2WT" -> "2WT"
      [] s = " TWO WHEELER(T) " -> "TWO WHEELER(T)"
      [] OTHER -> s

-----------------------------------------------------------------------------
(* Dates: pandas Timestamps at day resolution, and quarterly Periods *)

NoDate == [none |-> TRUE]

Date(y, m, d) == [year |-> y, month |-> m, day |-> d]

\* Timestamp comparison a <= b
DateLE(a, b) ==
    \/ a.year < b.year
    \/ a.year = b.year /\ a.month < b.month
    \/ a.year = b.year /\ a.month = b.month /\ a.day <= b.day

DateLT(a, b) == DateLE(a, b) /\ a # b

\* Series.dt.to_period('Q'): the calendar quarter (Q-DEC) holding the date
to_period_Q(dt) == [year |-> dt.year, quarter |-> ((dt.month - 1) \div 3) + 1]

QuarterLT(p, q) ==
    \/ p.year < q.year
    \/ p.year = q.year /\ p.quarter < q.quarter

\* Period.start_time: the first day of the quarter
start_time(q) == Date(q.year, 3 * (q.quarter - 1) + 1, 1)

-----------------------------------------------------------------------------
(* Floats produced by pct_change *)

NaN == [k |-> "nan", n |-> 0, d |-> 1]
Inf == [k |-> "inf", n |-> 1, d |-> 0]
Num(a, b) == [k |-> "num", n |-> a, d |-> b]

\* cur / prev on non-negative integers, as float division does it:
\* 0/0 is NaN and x/0 is +inf for x > 0
FloatDiv(cur, prev) ==
    IF prev = 0 THEN (IF cur = 0 THEN NaN ELSE Inf) ELSE Num(cur, prev)

FloatSub1(x) == IF x.k = "num" THEN Num(x.n - x.d, x.d) ELSE x

FloatMul100(x) == IF x.k = "num" THEN Num(x.n * 100, x.d) ELSE x

\* equality of two floats as numbers (NaN equals nothing, as in IEEE)
FloatEq(x, y) ==
    \/ x.k = "inf" /\ y.k = "inf"
    \/ x.k = "num" /\ y.k = "num" /\ x.n * y.d = y.n * x.d

IsNull(x) == x.k = "nan"

-----------------------------------------------------------------------------
(* DataFrame helpers *)

RECURSIVE SumRegistrations(_)
SumRegistrations(rows) ==
    IF rows = <<>> THEN 0
    ELSE Head(rows).Registrations + SumRegistrations(Tail(rows))

\* the rows of a frame as an explicit sequence (every row evaluated once)
Rows(f) == f \o <<>>

\* a sort or group key is a tuple of integers (a text value enters it as
\* its rank); tuples of one length compare lexicographically
TupleLT(a, b) ==
    \E i \in DOMAIN a :
        /\ a[i] < b[i]
        /\ \A j \in 1..(i - 1) : a[j] = b[j]

\* the tuples of S in ascending order
SortedTuples(S) ==
    Rows([k \in 1..Cardinality(S) |->
        CHOOSE x \in S : Cardinality({y \in S : TupleLT(y, x)}) = k - 1])

\* DataFrame.sort_values on several columns (a lexsort, which is stable):
\* keys[i] is the tuple of the sort columns of row i
StableSort(s, keys) ==
    LET n == Len(s)
        pos == Rows([i \in 1..n |->
                  Cardinality({j \in 1..n :
                      \/ TupleLT(keys[j], keys[i])
                      \/ (keys[j] = keys[i] /\ j < i)}) + 1])
    IN  Rows([k \in 1..n |-> s[CHOOSE i \in 1..n : pos[i] = k]])

\* variant of GroupSum in which a later row of a key replaces the earlier
\* ones instead of adding to them
GroupSumOverwrite(rows, keys) ==
    LET ks == SortedTuples({keys[i] : i \in DOMAIN rows})
    IN  Rows([k \in DOMAIN ks |->
            LET last == CHOOSE i \in DOMAIN rows :
                            /\ keys[i] = ks[k]
                            /\ \A j \in DOMAIN rows : keys[j] = ks[k] => j <= i
            IN  [key |-> ks[k], Registrations |-> rows[last].Registrations]])

\* df.groupby(cols, as_index=False)['Registrations'].sum(): one row per key
\* that occurs, in ascending key order, holding the sum of its rows;
\* keys[i] is the tuple of the group columns of row i
GroupSum(rows, keys) ==
    LET ks == SortedTuples({keys[i] : i \in DOMAIN rows})
    IN  Rows([k \in DOMAIN ks |->
            LET idx == {i \in DOMAIN rows : keys[i] = ks[k]}
                grp == SelectSeq(Rows([i \in DOMAIN rows |->
                                     [at |-> i,
                                      Registrations |-> rows[i].Registrations]]),
                                 LAMBDA r : r.at \in idx)
            IN  [key |-> ks[k], Registrations |-> SumRegistrations(grp)]])

\* variant of PctChange that divides by the current value
PctOfCurrent(cur, prev) ==
    IF cur = 0 THEN (IF prev = 0 THEN NaN ELSE Inf)
    ELSE Num((cur - prev) * 100, cur)

\* (cur / prev - 1) * 100, the element-wise formula of Series.pct_change
\* followed by the lambda's "* 100"
PctChange(cur, prev) == FloatMul100(FloatSub1(FloatDiv(cur, prev)))

\* df.groupby(col)['Registrations'].transform(lambda s: s.pct_change(p) * 100):
\* for each row, the change against the row p places earlier among the rows
\* of the same group, in row order; NaN for the first p rows of a group;
\* keys[i] is the group column of row i
GroupPctChange(rows, keys, p) ==
    Rows([i \in DOMAIN rows |->
        LET G == {j \in 1..i : keys[j] = keys[i]}
        IN  IF Cardinality(G) <= p THEN NaN
            ELSE LET j == CHOOSE j \in G :
                              Cardinality({l \in G : l >= j}) = p + 1
                 IN  PctChange(rows[i].Registrations, rows[j].Registrations)])

-----------------------------------------------------------------------------
(* Program constants *)

YoYPeriod == 12
QoQPeriod == 3
QuarterlyPeriod == 1
MakerYoYPeriod == 1
TopN == 10

-----------------------------------------------------------------------------
(* The processed CSV files: bounded families of inputs *)

CatA == "LIGHT MOTOR VEHICLE"
CatB == "TWO WHEELER(T)"

\* the i-th month column of the category sheet, i = 0 for Jan 2021
MonthDate(i) == Date(2021 + (i \div 12), (i % 12) + 1, 1)

\* month columns that may be missing from the sheet (unpivot_category_monthly
\* drops a column whose name it cannot parse)
GapChoices == { {}, {1}, {3, 4, 5} }

\* sets of months in which category CatA has no registrations at all
ZeroChoices == { {}, {0}, {12}, {13}, {0, 12}, {0, 1, 2} }

CatValue(c, i, Z) ==
    IF c = CatA THEN (IF i \in Z THEN 0 ELSE 100 + 10 * i) ELSE 50 + i

\* the rows of category_monthly_clean.csv, listed month by month with every
\* category (prepare_category_monthly sorts them at load)
RECURSIVE CatRawFrom(_, _, _, _)
CatRawFrom(i, cats, gap, Z) ==
    IF i >= NMonths THEN <<>>
    ELSE (IF i \in gap THEN <<>>
          ELSE Rows([k \in DOMAIN cats |->
                   [Category |-> cats[k], Date |-> MonthDate(i),
                    Registrations |-> CatValue(cats[k], i, Z)]]))
         \o CatRawFrom(i + 1, cats, gap, Z)

CatRawTables ==
    { CatRawFrom(0, cats, gap, Z) :
        cats \in { <<CatA>>, <<CatB, CatA>> },
        gap \in GapChoices,
        Z \in ZeroChoices }

\* a short sheet: one category, the last four month columns
FixedCatRaw == CatRawFrom(NMonths - 4, <<CatA>>, {}, {})

\* rows a manufacturer file can hold, 2w file before 4w file
MfrRowUniverse ==
    LET U == { [Maker |-> m, Category |-> c, Year |-> y, Registrations |-> r] :
                 m \in {"ACME", "BAJAJ"}, c \in {"2WT", "LMV"},
                 y \in {2021, 2022}, r \in {0, 50} }
        T == SortedTuples({ <<Rank(u.Category), Rank(u.Maker), u.Year,
                                u.Registrations>> : u \in U })
    IN  Rows([k \in DOMAIN T |->
            [Maker |-> TextOrder[T[k][2]], Category |-> TextOrder[T[k][1]],
             Year |-> T[k][3], Registrations |-> T[k][4]]])

\* pd.concat of the manufacturer files: up to MaxMfrRows rows, duplicates
\* of a (Maker, Category, Year) allowed
MfrRawTables ==
    UNION { { Rows([k \in 1..n |-> MfrRowUniverse[ix[k]]]) :
                ix \in { f \in [1..n -> DOMAIN MfrRowUniverse] :
                           \A k \in 1..(n - 1) : f[k] <= f[k + 1] } } :
            n \in 0..MaxMfrRows }

FixedMfrRaw ==
    << [Maker |-> "ACME", Category |-> "2WT", Year |-> 2021, Registrations |-> 40],
       [Maker |-> "ACME", Category |-> "2WT", Year |-> 2022, Registrations |-> 50],
       [Maker |-> "ACME", Category |-> "2WT", Year |-> 2022, Registrations |-> 30],
       [Maker |-> "BAJAJ", Category |-> "LMV", Year |-> 2022, Registrations |-> 80] >>

-----------------------------------------------------------------------------
(* Load: module level of dashboard.py *)

\* the sort columns ['Category', 'Date'] of every row
CatDateKeys(df) ==
    Rows([i \in DOMAIN df |->
        <<Rank(df[i].Category), df[i].Date.year, df[i].Date.month,
          df[i].Date.day>>])

\* the column 'Category' of every row
CategoryKeys(df) == Rows([i \in DOMAIN df |-> df[i].Category])

\* the column 'Maker' of every row
MakerKeys(df) == Rows([i \in DOMAIN df |-> <<Rank(df[i].Maker)>>])

\* prepare_category_monthly, for a file that has Date, Category and
\* Registrations columns
prepare_category_monthly(df) == StableSort(df, CatDateKeys(df))

\* variant of QuarterAgg that keeps only the quarters with registrations
QuarterAggNonZero(rows) ==
    LET g == GroupSum(rows, Rows([i \in DOMAIN rows |->
                 <<Rank(rows[i].Category), to_period_Q(rows[i].Date).year,
                   to_period_Q(rows[i].Date).quarter>>]))
    IN  SelectSeq(Rows([k \in DOMAIN g |->
                      [Category |-> TextOrder[g[k].key[1]],
                       Quarter |-> [year |-> g[k].key[2], quarter |-> g[k].key[3]],
                       Registrations |-> g[k].Registrations]]),
                  LAMBDA r : r.Registrations > 0)

\* groupby(['Category', 'Quarter'], as_index=False)['Registrations'].sum(),
\* Quarter being Date.dt.to_period('Q')
QuarterAgg(rows) ==
    LET g == GroupSum(rows, Rows([i \in DOMAIN rows |->
                 <<Rank(rows[i].Category), to_period_Q(rows[i].Date).year,
                   to_period_Q(rows[i].Date).quarter>>]))
    IN  Rows([k \in DOMAIN g |->
            [Category |-> TextOrder[g[k].key[1]],
             Quarter |-> [year |-> g[k].key[2], quarter |-> g[k].key[3]],
             Registrations |-> g[k].Registrations]])

\* compute_category_yoy_qoq: (df, df_quarter)
compute_category_yoy_qoq(df0) ==
    LET df == StableSort(df0, CatDateKeys(df0))
        yoy == GroupPctChange(df, CategoryKeys(df), YoYPeriod)
        qoq == GroupPctChange(df, CategoryKeys(df), QoQPeriod)
        full == Rows([i \in DOMAIN df |->
                    [Category |-> df[i].Category, Date |-> df[i].Date,
                     Registrations |-> df[i].Registrations,
                     YoY_pct |-> yoy[i], QoQ_pct |-> qoq[i],
                     Quarter |-> to_period_Q(df[i].Date)]])
    IN  <<full, QuarterAgg(full)>>

\* prepare_manufacturers, for files with Maker, Category, Year and
\* Registrations columns
prepare_manufacturers(frames) ==
    Rows([i \in DOMAIN frames |->
        [Maker |-> frames[i].Maker, Category |-> Strip(frames[i].Category),
         Year |-> frames[i].Year, Registrations |-> frames[i].Registrations]])

compute_manufacturer_yoy(mdf) ==
    LET g == GroupSum(mdf, Rows([i \in DOMAIN mdf |->
                 <<Rank(mdf[i].Maker), mdf[i].Year, Rank(mdf[i].Category)>>]))
        m0 == Rows([k \in DOMAIN g |->
                  [Maker |-> TextOrder[g[k].key[1]], Year |-> g[k].key[2],
                   Category |-> TextOrder[g[k].key[3]],
                   Registrations |-> g[k].Registrations]])
        m == StableSort(m0, Rows([i \in DOMAIN m0 |->
                 <<Rank(m0[i].Maker), m0[i].Year>>]))
        yoy == GroupPctChange(m, MakerKeys(m), MakerYoYPeriod)
    IN  Rows([i \in DOMAIN m |->
            [Maker |-> m[i].Maker, Year |-> m[i].Year,
             Category |-> m[i].Category,
             Registrations |-> m[i].Registrations, YoY_pct |-> yoy[i]]])

\* no response is in flight: the server holds only its tables
Idle == [args |-> [fn |-> "idle"], status |-> "ok"]

Load(cat_csv, mfr_csv) ==
    LET cat_month == prepare_category_monthly(cat_csv)
        pre == compute_category_yoy_qoq(cat_month)
        mfr == prepare_manufacturers(mfr_csv)
    IN  /\ cat_month_long = pre[1]
        /\ cat_quarter = pre[2]
        /\ mfr_all = mfr
        /\ mfr_yoy = compute_manufacturer_yoy(mfr)
        /\ maker_filter = None
        /\ result = Idle

Init ==
    \/ \E cat_csv \in CatRawTables : Load(cat_csv, FixedMfrRaw)
    \/ \E mfr_csv \in MfrRawTables : Load(FixedCatRaw, mfr_csv)

tables == <<cat_month_long, cat_quarter, mfr_all, mfr_yoy>>

-----------------------------------------------------------------------------
(* Callback inputs *)

\* values the DatePickerRange can deliver for start_date and end_date
StartDateInputs == { NoDate, Date(2021, 1, 1), Date(2021, 1, 15), Date(2022, 2, 1) }
EndDateInputs == { NoDate, Date(2021, 6, 30), Date(2022, 2, 1) }

\* the manufacturer callbacks read only the year of a date
MfrStartDateInputs == { NoDate, Date(2021, 1, 15), Date(2022, 2, 1) }
MfrEndDateInputs == { NoDate, Date(2021, 6, 30), Date(2022, 2, 1) }

\* a Python value that is None, a str or a list of str
PyNone == [t |-> "none", v |-> <<>>]
PyStr(x) == [t |-> "str", v |-> x]
PyList(xs) == [t |-> "list", v |-> xs]

\* values the category dropdown can deliver
CategoryInputs ==
    { PyNone, PyStr(CatB), PyList(<<CatA>>), PyList(<<CatB, CatA>>) }

\* the same dropdown as the manufacturer callbacks may receive it: labels,
\* or a value that already is a code
MfrCategoryInputs ==
    { PyNone, PyStr(CatB), PyList(<<CatA>>), PyList(<<"LMV", CatB>>) }

MakerInputs == {None, "ACME", "BAJAJ"}

Range(f) == { f[i] : i \in DOMAIN f }

Min(a, b) == IF a <= b THEN a ELSE b

-----------------------------------------------------------------------------
(* map_dropdown_categories_to_codes *)

CATEGORY_CODE_MAP ==
    [ c \in { "FOUR WHEELER (INVALID CARRIAGE)", "HEAVY MOTOR VEHICLE",
              "LIGHT MOTOR VEHICLE", "MEDIUM MOTOR VEHICLE",
              "THREE WHEELER (INVALID CARRIAGE)", "THREE WHEELER(NT)",
              "THREE WHEELER(T)", "TWO WHEELER (INVALID CARRIAGE)",
              "TWO WHEELER(NT)", "TWO WHEELER(T)" } |->
        CASE c = "FOUR WHEELER (INVALID CARRIAGE)" -> "4WIC"
          [] c = "HEAVY MOTOR VEHICLE" -> "HMV"
          [] c = "LIGHT MOTOR VEHICLE" -> "LMV"
          [] c = "MEDIUM MOTOR VEHICLE" -> "MMV"
          [] c = "THREE WHEELER (INVALID CARRIAGE)" -> "3WIC"
          [] c = "THREE WHEELER(NT)" -> "3WN"
          [] c = "THREE WHEELER(T)" -> "3WT"
          [] c = "TWO WHEELER (INVALID CARRIAGE)" -> "2WIC"
          [] c = "TWO WHEELER(NT)" -> "2WN"
          [] c = "TWO WHEELER(T)" -> "2WT" ]

\* "if not sel_categories": None, "" and [] are falsy
Falsy(x) == x.t = "none" \/ (x.t = "str" /\ x.v = "") \/ (x.t = "list" /\ x.v = <<>>)

\* "if isinstance(x, str): x = [x]"
AsList(x) == IF x.t = "str" THEN <<x.v>> ELSE x.v

\* variant of MapOne without the strip
MapOneNoStrip(c0) ==
    IF c0 \in DOMAIN CATEGORY_CODE_MAP THEN CATEGORY_CODE_MAP[c0] ELSE c0

\* one pass of the loop body: strip, look up, fall back to the stripped value
MapOne(c0) ==
    LET c == Strip(c0)
    IN  IF c \in DOMAIN CATEGORY_CODE_MAP THEN CATEGORY_CODE_MAP[c] ELSE c

map_dropdown_categories_to_codes(sel_categories) ==
    IF Falsy(sel_categories) THEN PyNone
    ELSE LET l == AsList(sel_categories)
         IN  PyList(Rows([i \in DOMAIN l |-> MapOne(l[i])]))

-----------------------------------------------------------------------------
(* update_main_charts *)

InDateRange(dt, start_date, end_date) ==
    DateLE(start_date, dt) /\ DateLE(dt, end_date)

\* lines 397-400: the date mask, then the category mask
FilterCategoryRows(table, start_date, end_date, categories) ==
    LET d0 == SelectSeq(table, LAMBDA r : InDateRange(r.Date, start_date, end_date))
        cats == AsList(categories)
    IN  IF Falsy(categories) THEN d0
        ELSE SelectSeq(d0, LAMBDA r : r.Category \in Range(cats))

\* variant of MonthlyYoY that keeps the YoY_pct column computed at load
MonthlyYoYLoaded(d) == StableSort(d, CatDateKeys(d))

\* lines 418-420
MonthlyYoY(d) ==
    LET d_yoy == StableSort(d, CatDateKeys(d))
        yoy == GroupPctChange(d_yoy, CategoryKeys(d_yoy), YoYPeriod)
    IN  Rows([i \in DOMAIN d_yoy |-> [d_yoy[i] EXCEPT !.YoY_pct = yoy[i]]])

\* lines 432-438
QuarterlyQoQ(d) ==
    LET q0 == QuarterAgg(d)
        qagg == StableSort(q0, Rows([i \in DOMAIN q0 |->
                    <<Rank(q0[i].Category), q0[i].Quarter.year,
                      q0[i].Quarter.quarter>>]))
        qoq == GroupPctChange(qagg, CategoryKeys(qagg), QuarterlyPeriod)
    IN  Rows([i \in DOMAIN qagg |->
            [Category |-> qagg[i].Category, Quarter |-> qagg[i].Quarter,
             Registrations |-> qagg[i].Registrations, QoQ_pct |-> qoq[i],
             QuarterStart |-> start_time(qagg[i].Quarter)]])

\* comparing the Date column with pd.to_datetime(None), which is None,
\* raises TypeError
MainCharts(table, start_date, end_date, categories, maker_selected) ==
    LET args == [fn |-> "update_main_charts", start_date |-> start_date,
                 end_date |-> end_date, categories |-> categories,
                 maker_selected |-> maker_selected]
    IN  IF start_date = NoDate \/ end_date = NoDate
        THEN [args |-> args, status |-> "error", d |-> <<>>, d_yoy |-> <<>>,
              qagg |-> <<>>]
        ELSE LET d == FilterCategoryRows(table, start_date, end_date, categories)
             IN  [args |-> args, status |-> "ok", d |-> d,
                  d_yoy |-> MonthlyYoY(d), qagg |-> QuarterlyQoQ(d)]

update_main_charts ==
    /\ result = Idle
    /\ \E start_date \in StartDateInputs, end_date \in EndDateInputs,
          categories \in CategoryInputs :
          result' = MainCharts(cat_month_long, start_date, end_date,
                               categories, maker_filter)
    /\ UNCHANGED <<tables, maker_filter>>

-----------------------------------------------------------------------------
(* Manufacturer callbacks *)

IsIn(codes, c) == c \in Range(codes.v)

\* lines 475-495 of update_maker_yearly: the filtered frame
MakerYearlyRows(table, start_date, end_date, category_codes, maker_selected) ==
    LET df0 == Rows([i \in DOMAIN table |->
                   [table[i] EXCEPT !.Category = Strip(@), !.Maker = Strip(@)]])
        df1 == IF Falsy(category_codes) THEN df0
               ELSE SelectSeq(df0, LAMBDA r : IsIn(category_codes, r.Category))
        df2 == IF maker_selected = None \/ maker_selected = "" THEN df1
               ELSE SelectSeq(df1, LAMBDA r : r.Maker = Strip(maker_selected))
    IN  SelectSeq(df2, LAMBDA r : start_date.year <= r.Year /\ r.Year <= end_date.year)

\* line 498
YearlyAgg(df) ==
    LET g == GroupSum(df, Rows([i \in DOMAIN df |-> <<df[i].Year>>]))
    IN  Rows([k \in DOMAIN g |->
            [Year |-> g[k].key[1], Registrations |-> g[k].Registrations]])

\* pd.to_datetime(None) is None, and None.year raises AttributeError
MakerYearly(table, start_date, end_date, categories, maker_selected) ==
    LET args == [fn |-> "update_maker_yearly", start_date |-> start_date,
                 end_date |-> end_date, categories |-> categories,
                 maker_selected |-> maker_selected]
        category_codes == map_dropdown_categories_to_codes(categories)
    IN  IF start_date = NoDate \/ end_date = NoDate
        THEN [args |-> args, status |-> "error", no_data |-> FALSE,
              yearly_data |-> <<>>]
        ELSE LET df == MakerYearlyRows(table, start_date, end_date,
                                       category_codes, maker_selected)
             IN  IF df = <<>>
                 THEN [args |-> args, status |-> "ok", no_data |-> TRUE,
                       yearly_data |-> <<>>]
                 ELSE [args |-> args, status |-> "ok", no_data |-> FALSE,
                       yearly_data |-> YearlyAgg(df)]

\* variant of update_maker_yearly that works on mfr_all itself instead of
\* a copy and leaves the filtered frame in it
update_maker_yearly_inplace ==
    /\ result = Idle
    /\ \E start_date \in MfrStartDateInputs, end_date \in MfrEndDateInputs,
          categories \in MfrCategoryInputs :
          /\ result' = MakerYearly(mfr_all, start_date, end_date, categories,
                                   maker_filter)
          /\ mfr_all' =
                 IF start_date = NoDate \/ end_date = NoDate THEN mfr_all
                 ELSE MakerYearlyRows(mfr_all, start_date, end_date,
                          map_dropdown_categories_to_codes(categories),
                          maker_filter)
    /\ UNCHANGED <<cat_month_long, cat_quarter, mfr_yoy, maker_filter>>

update_maker_yearly ==
    /\ result = Idle
    /\ \E start_date \in MfrStartDateInputs, end_date \in MfrEndDateInputs,
          categories \in MfrCategoryInputs :
          result' = MakerYearly(mfr_all, start_date, end_date, categories,
                                maker_filter)
    /\ UNCHANGED <<tables, maker_filter>>

\* lines 536-547 of update_top_makers: the filtered frame
TopMakersRows(table, start_date, end_date, category_codes, maker_selected) ==
    LET df1 == IF Falsy(category_codes) THEN table
               ELSE SelectSeq(table, LAMBDA r : IsIn(category_codes, r.Category))
        df2 == IF maker_selected = None \/ maker_selected = "" THEN df1
               ELSE SelectSeq(df1, LAMBDA r : r.Maker = maker_selected)
    IN  SelectSeq(df2, LAMBDA r : start_date.year <= r.Year /\ r.Year <= end_date.year)

\* variant of MakerAgg that groups like a categorical key with
\* observed=False: one row for every maker of the table, 0 when it has no row
MakerAggUnobserved(df) ==
    LET ks == SortedTuples({ <<Rank(r.Maker)>> : r \in Range(mfr_all) })
    IN  Rows([k \in DOMAIN ks |->
            [Maker |-> TextOrder[ks[k][1]],
             Registrations |->
                 SumRegistrations(SelectSeq(df,
                     LAMBDA r : r.Maker = TextOrder[ks[k][1]]))]])

\* groupby('Maker', as_index=False)['Registrations'].sum()
MakerAgg(df) ==
    LET g == GroupSum(df, MakerKeys(df))
    IN  Rows([k \in DOMAIN g |->
            [Maker |-> TextOrder[g[k].key[1]],
             Registrations |-> g[k].Registrations]])

\* sort_values('Registrations', ascending=False) with the default
\* kind='quicksort', which is not stable: every descending arrangement of
\* the rows is a possible outcome
SortDescOutcomes(rows) ==
    { Rows([k \in DOMAIN rows |-> rows[pi[k]]]) :
        pi \in { q \in Permutations(DOMAIN rows) :
                   \A k \in 1..(Len(rows) - 1) :
                       rows[q[k]].Registrations >= rows[q[k + 1]].Registrations } }

\* DataFrame.head(n)
HeadRows(rows, n) == SubSeq(rows, 1, Min(n, Len(rows)))

update_top_makers ==
    /\ result = Idle
    /\ \E start_date \in MfrStartDateInputs, end_date \in MfrEndDateInputs,
          categories \in MfrCategoryInputs :
          LET args == [fn |-> "update_top_makers", start_date |-> start_date,
                       end_date |-> end_date, categories |-> categories,
                       maker_selected |-> maker_filter]
              category_codes == map_dropdown_categories_to_codes(categories)
          IN  IF start_date = NoDate \/ end_date = NoDate
              THEN result' = [args |-> args, status |-> "error",
                              top_makers |-> <<>>]
              ELSE \E sorted \in SortDescOutcomes(MakerAgg(
                          TopMakersRows(mfr_all, start_date, end_date,
                                        category_codes, maker_filter))) :
                      result' = [args |-> args, status |-> "ok",
                                 top_makers |-> HeadRows(sorted, TopN)]
    /\ UNCHANGED <<tables, maker_filter>>

\* lines 589-602 of update_maker_dropdown: the filtered frame; the
\* Registrations > 0 mask sits inside the "if ... start_date and end_date"
DropdownRows(table, start_date, end_date, category_codes) ==
    LET df1 == IF Falsy(category_codes) THEN table
               ELSE SelectSeq(table, LAMBDA r : IsIn(category_codes, r.Category))
    IN  IF start_date # NoDate /\ end_date # NoDate
        THEN SelectSeq(
                 SelectSeq(df1, LAMBDA r : start_date.year <= r.Year
                                           /\ r.Year <= end_date.year),
                 LAMBDA r : r.Registrations > 0)
        ELSE df1

\* variant of update_maker_dropdown that falls back to the first option
\* instead of None when the current maker is no option
update_maker_dropdown_first ==
    /\ result = Idle
    /\ \E start_date \in MfrStartDateInputs, end_date \in MfrEndDateInputs,
          selected_categories \in MfrCategoryInputs :
          LET category_codes == map_dropdown_categories_to_codes(selected_categories)
              df == DropdownRows(mfr_all, start_date, end_date, category_codes)
          IN  \E sorted \in SortDescOutcomes(MakerAgg(df)) :
                  LET makers_sorted == Rows([k \in DOMAIN sorted |-> sorted[k].Maker])
                      value == IF maker_filter \in Range(makers_sorted)
                               THEN maker_filter
                               ELSE IF makers_sorted = <<>> THEN None
                               ELSE makers_sorted[1]
                  IN  /\ result' =
                             [args |-> [fn |-> "update_maker_dropdown",
                                        start_date |-> start_date,
                                        end_date |-> end_date,
                                        categories |-> selected_categories,
                                        current_maker |-> maker_filter],
                              status |-> "ok", options |-> makers_sorted,
                              value |-> value]
                      /\ maker_filter' = value
    /\ UNCHANGED tables

update_maker_dropdown ==
    /\ result = Idle
    /\ \E start_date \in MfrStartDateInputs, end_date \in MfrEndDateInputs,
          selected_categories \in MfrCategoryInputs :
          LET category_codes == map_dropdown_categories_to_codes(selected_categories)
              df == DropdownRows(mfr_all, start_date, end_date, category_codes)
          IN  \E sorted \in SortDescOutcomes(MakerAgg(df)) :
                  LET makers_sorted == Rows([k \in DOMAIN sorted |-> sorted[k].Maker])
                      value == IF maker_filter \in Range(makers_sorted)
                               THEN maker_filter ELSE None
                  IN  /\ result' =
                             [args |-> [fn |-> "update_maker_dropdown",
                                        start_date |-> start_date,
                                        end_date |-> end_date,
                                        categories |-> selected_categories,
                                        current_maker |-> maker_filter],
                              status |-> "ok", options |-> makers_sorted,
                              value |-> value]
                      /\ maker_filter' = value
    /\ UNCHANGED tables

\* the user picks a maker in the dropdown, or clears it
SelectMaker ==
    /\ result = Idle
    /\ \E m \in MakerInputs : maker_filter' = m
    /\ UNCHANGED <<tables, result>>

\* the callback's return value leaves the server (single-threaded,
\* one request at a time)
Respond ==
    /\ result # Idle
    /\ result' = Idle
    /\ UNCHANGED <<tables, maker_filter>>

Next ==
    \/ Respond
    \/ update_main_charts
    \/ update_maker_yearly
    \/ update_top_makers
    \/ update_maker_dropdown
    \/ SelectMaker

Spec == Init /\ [][Next]_vars

-----------------------------------------------------------------------------
(* map_dropdown_categories_to_codes on its own: every selection of up to   *)
(* MaxSel values is handed to the function                                *)

SelValues ==
    { "", " 2WT", " TWO WHEELER(T) ", "2WT", "EV", "LIGHT MOTOR VEHICLE",
      "TWO WHEELER(T)" }

SelInputs ==
    {PyNone} \cup { PyStr(x) : x \in SelValues }
        \cup UNION { { PyList(l) : l \in [1..n -> SelValues] } : n \in 0..MaxSel }

InitMap == Load(FixedCatRaw, FixedMfrRaw)

map_call ==
    /\ result = Idle
    /\ \E sel_categories \in SelInputs :
          result' = [args |-> [fn |-> "map_dropdown_categories_to_codes",
                               sel_categories |-> sel_categories],
                     status |-> "ok",
                     codes |-> map_dropdown_categories_to_codes(sel_categories)]
    /\ UNCHANGED <<tables, maker_filter>>

NextMap == map_call \/ Respond

SpecMap == InitMap /\ [][NextMap]_vars

-----------------------------------------------------------------------------
(* Properties *)

IsCall(fn) == result.args.fn = fn /\ result.status = "ok"

CategoryOf(r) == r.Category
MakerOf(r) == r.Maker
YearOfRow(r) == r.Year
MakerYearCatKey(r) == <<r.Maker, r.Year, r.Category>>

\* the rows of one group, in table order
GroupRows(rows, Key(_), g) == SelectSeq(rows, LAMBDA r : Key(r) = g)

GroupKeys(rows, Key(_)) == { Key(rows[i]) : i \in DOMAIN rows }

\* (v - w) / w * 100
ChangeFormula(v, w) == Num((v - w) * 100, w)

\* in every group, position t has a null change when fewer than p rows
\* precede it, and otherwise the formula's value when the row p places
\* earlier is nonzero
PositionalChange(rows, Key(_), Pct(_), p) ==
    \A g \in GroupKeys(rows, Key) :
        LET grp == GroupRows(rows, Key, g)
        IN  \A t \in DOMAIN grp :
                /\ t <= p => IsNull(Pct(grp[t]))
                /\ (t > p /\ grp[t - p].Registrations # 0) =>
                       FloatEq(Pct(grp[t]),
                               ChangeFormula(grp[t].Registrations,
                                             grp[t - p].Registrations))

\* every group's rows are in chronological order
ChronologicalGroups(rows, Key(_), Before(_, _)) ==
    \A g \in GroupKeys(rows, Key) :
        LET grp == GroupRows(rows, Key, g)
        IN  \A t \in 1..(Len(grp) - 1) : ~Before(grp[t + 1], grp[t])

YoYOf(r) == r.YoY_pct
QoQOf(r) == r.QoQ_pct

\* C1: in every group's chronologically sorted sequence the percent change
\* with period p is null at a position with fewer than p earlier rows and
\* equals (v[t] - v[t-p]) / v[t-p] * 100 when v[t-p] is nonzero; p = 12 and
\* p = 3 on the monthly table, p = 1 on the quarterly roll-up and on the
\* manufacturer table
C1_PositionalPercentChange ==
    /\ ChronologicalGroups(cat_month_long, CategoryOf,
                           LAMBDA a, b : DateLT(a.Date, b.Date))
    /\ PositionalChange(cat_month_long, CategoryOf, YoYOf, 12)
    /\ PositionalChange(cat_month_long, CategoryOf, QoQOf, 3)
    /\ ChronologicalGroups(mfr_yoy, MakerOf, LAMBDA a, b : a.Year < b.Year)
    /\ PositionalChange(mfr_yoy, MakerOf, YoYOf, 1)
    /\ IsCall("update_main_charts") =>
           /\ ChronologicalGroups(result.d_yoy, CategoryOf,
                                  LAMBDA a, b : DateLT(a.Date, b.Date))
           /\ PositionalChange(result.d_yoy, CategoryOf, YoYOf, 12)
           /\ ChronologicalGroups(result.qagg, CategoryOf,
                                  LAMBDA a, b : QuarterLT(a.Quarter, b.Quarter))
           /\ PositionalChange(result.qagg, CategoryOf, QoQOf, 1)

HasNumber(rows, Pct(_)) == \E i \in DOMAIN rows : Pct(rows[i]).k = "num"

\* C1 witness: a chart refresh over two categories in which the monthly
\* YoY, the quarterly QoQ, the load-time QoQ and the manufacturer YoY all
\* hold a computed number
C1_Witness ==
    /\ IsCall("update_main_charts")
    /\ Cardinality(GroupKeys(result.d_yoy, CategoryOf)) = 2
    /\ HasNumber(result.d_yoy, YoYOf)
    /\ HasNumber(result.qagg, QoQOf)
    /\ HasNumber(cat_month_long, QoQOf)
    /\ HasNumber(mfr_yoy, YoYOf)

\* in every group, a position whose row p places earlier is zero has a null
\* change
NullOnZeroDenominator(rows, Key(_), Pct(_), p) ==
    \A g \in GroupKeys(rows, Key) :
        LET grp == GroupRows(rows, Key, g)
        IN  \A t \in DOMAIN grp :
                (t > p /\ grp[t - p].Registrations = 0) => IsNull(Pct(grp[t]))

\* C6: when the denominator of a percent change is zero the result is null
\* (not zero, not infinite), whatever the current value
C6_ZeroDenominatorIsNull ==
    /\ NullOnZeroDenominator(cat_month_long, CategoryOf, YoYOf, 12)
    /\ NullOnZeroDenominator(cat_month_long, CategoryOf, QoQOf, 3)
    /\ NullOnZeroDenominator(mfr_yoy, MakerOf, YoYOf, 1)
    /\ IsCall("update_main_charts") =>
           /\ NullOnZeroDenominator(result.d_yoy, CategoryOf, YoYOf, 12)
           /\ NullOnZeroDenominator(result.qagg, CategoryOf, QoQOf, 1)

\* C6 witness: the loaded category table holds an infinite QoQ_pct, on a
\* row with registrations whose row 3 places earlier has none
C6_Witness ==
    \E i \in DOMAIN cat_month_long :
        /\ cat_month_long[i].QoQ_pct.k = "inf"
        /\ cat_month_long[i].Registrations > 0
        /\ i > 3
        /\ cat_month_long[i - 3].Category = cat_month_long[i].Category
        /\ cat_month_long[i - 3].Registrations = 0

\* the date 12 months before dt, and the quarter before q
YearBefore(dt) == Date(dt.year - 1, dt.month, dt.day)
QuarterBefore(q) ==
    IF q.quarter = 1 THEN [year |-> q.year - 1, quarter |-> 4]
    ELSE [year |-> q.year, quarter |-> q.quarter - 1]

\* every row's change is computed against the row of its group that When
\* places one period earlier, and is no computed number when that row is
\* missing
CalendarChange(rows, Pct(_), When(_), Earlier(_)) ==
    \A i \in DOMAIN rows :
        LET prev == { j \in DOMAIN rows :
                        /\ rows[j].Category = rows[i].Category
                        /\ When(rows[j]) = Earlier(When(rows[i])) }
        IN  /\ prev = {} => Pct(rows[i]).k # "num"
            /\ \A j \in prev :
                   rows[j].Registrations # 0 =>
                       FloatEq(Pct(rows[i]),
                               ChangeFormula(rows[i].Registrations,
                                             rows[j].Registrations))

\* C9: a period change compares with the calendar period it is named for,
\* also across gaps: monthly YoY with the same category 12 months earlier,
\* quarterly QoQ with the quarter just before, and it is undefined when
\* that earlier period has no row
C9_CalendarAlignedChange ==
    IsCall("update_main_charts") =>
        /\ CalendarChange(result.d_yoy, YoYOf, LAMBDA r : r.Date, YearBefore)
        /\ CalendarChange(result.qagg, QoQOf, LAMBDA r : r.Quarter, QuarterBefore)

\* C9 witness: the roll-up holds a computed QoQ for a quarter whose
\* preceding calendar quarter has no row
C9_Witness ==
    /\ IsCall("update_main_charts")
    /\ \E i \in DOMAIN result.qagg :
           /\ result.qagg[i].QoQ_pct.k = "num"
           /\ \A j \in DOMAIN result.qagg :
                  result.qagg[j].Category = result.qagg[i].Category =>
                      result.qagg[j].Quarter # QuarterBefore(result.qagg[i].Quarter)

\* (year, month) of a <= (year, month) of b
MonthLE(a, b) == a.year < b.year \/ (a.year = b.year /\ a.month <= b.month)

CategorySelected(categories, c) ==
    Falsy(categories) \/ c \in Range(AsList(categories))

\* the category rows a (start, end, categories) filter selects when the
\* bounds count by month
RowsByMonth(table, a) ==
    SelectSeq(table, LAMBDA r :
        /\ MonthLE(a.start_date, r.Date) /\ MonthLE(r.Date, a.end_date)
        /\ CategorySelected(a.categories, r.Category))

MakerSelected(maker, m) == maker = None \/ maker = "" \/ m = maker

CodeSelected(categories, code) ==
    \/ Falsy(categories)
    \/ \E i \in DOMAIN AsList(categories) : MapOne(AsList(categories)[i]) = code

\* the manufacturer rows a filter selects when the bounds count by year
RowsByYear(table, start_date, end_date, categories, maker) ==
    SelectSeq(table, LAMBDA r :
        /\ start_date.year <= r.Year /\ r.Year <= end_date.year
        /\ CodeSelected(categories, r.Category)
        /\ MakerSelected(maker, r.Maker))

TotalOf(rows, Key(_), g) == SumRegistrations(GroupRows(rows, Key, g))

\* C7: the date filter selects a category row exactly when its month lies
\* between the months of the two bounds, whatever their day of the month,
\* and a manufacturer row exactly when its year lies between their years
C7_MonthGranularFilter ==
    /\ IsCall("update_main_charts") =>
           result.d = RowsByMonth(cat_month_long, result.args)
    /\ IsCall("update_maker_yearly") =>
           LET a == result.args
               sel == RowsByYear(mfr_all, a.start_date, a.end_date,
                                 a.categories, a.maker_selected)
           IN  /\ { r.Year : r \in Range(result.yearly_data) } = GroupKeys(sel, YearOfRow)
               /\ \A r \in Range(result.yearly_data) :
                      r.Registrations = TotalOf(sel, YearOfRow, r.Year)
    /\ IsCall("update_top_makers") =>
           LET a == result.args
               sel == RowsByYear(mfr_all, a.start_date, a.end_date,
                                 a.categories, a.maker_selected)
           IN  /\ { r.Maker : r \in Range(result.top_makers) } = GroupKeys(sel, MakerOf)
               /\ \A r \in Range(result.top_makers) :
                      r.Registrations = TotalOf(sel, MakerOf, r.Maker)

\* C7 witness: a start date after the first of its month left out the
\* row of that month
C7_Witness ==
    /\ IsCall("update_main_charts")
    /\ result.args.start_date.day > 1
    /\ \E r \in Range(cat_month_long) :
           /\ r.Date.year = result.args.start_date.year
           /\ r.Date.month = result.args.start_date.month
           /\ MonthLE(r.Date, result.args.end_date)
           /\ CategorySelected(result.args.categories, r.Category)
           /\ r \notin Range(result.d)

\* dt lies in calendar quarter q of year y
InQuarter(dt, y, q) == dt.year = y /\ 3 * (q - 1) < dt.month /\ dt.month <= 3 * q

\* one output row per (category, quarter) that has a row in d, carrying
\* the sum of those rows; none for a (category, quarter) without rows
QuarterRollUp(d, out) ==
    \A c \in {CatA, CatB}, y \in {2021, 2022}, q \in 1..4 :
        LET src == SelectSeq(d, LAMBDA r : r.Category = c /\ InQuarter(r.Date, y, q))
            rows == SelectSeq(out, LAMBDA r :
                        r.Category = c /\ r.Quarter = [year |-> y, quarter |-> q])
        IN  IF src = <<>> THEN rows = <<>>
            ELSE /\ Len(rows) = 1
                 /\ rows[1].Registrations = SumRegistrations(src)

\* C8: the quarterly roll-up has exactly one row for every category and
\* calendar quarter with at least one selected row, holding the sum of
\* those rows (0 when they are all zero) and labelled with the first day
\* of the quarter, and no row for a (category, quarter) without rows
C8_QuarterlyRollUp ==
    /\ QuarterRollUp(cat_month_long, cat_quarter)
    /\ IsCall("update_main_charts") =>
           /\ QuarterRollUp(result.d, result.qagg)
           /\ \A r \in Range(result.qagg) :
                  r.QuarterStart = Date(r.Quarter.year, 3 * (r.Quarter.quarter - 1) + 1, 1)

\* C8 witness: a roll-up that holds a quarter of value 0, skips the next
\* quarter, which has no row, and holds the quarter after it
C8_Witness ==
    /\ IsCall("update_main_charts")
    /\ \E i, j \in DOMAIN result.qagg :
           /\ result.qagg[i].Category = result.qagg[j].Category
           /\ result.qagg[i].Registrations = 0
           /\ result.qagg[i].Quarter = [year |-> 2021, quarter |-> 1]
           /\ result.qagg[j].Quarter = [year |-> 2021, quarter |-> 3]
           /\ result.qagg[j].QuarterStart = Date(2021, 7, 1)
           /\ \A k \in DOMAIN result.qagg :
                  result.qagg[k].Quarter # [year |-> 2021, quarter |-> 2]

BothDates(a) == a.start_date # NoDate /\ a.end_date # NoDate

C3_DuplicatesSummed ==
    /\ \A i, j \in DOMAIN mfr_yoy :
           MakerYearCatKey(mfr_yoy[i]) = MakerYearCatKey(mfr_yoy[j]) => i = j
    /\ { MakerYearCatKey(r) : r \in Range(mfr_yoy) } = GroupKeys(mfr_all, MakerYearCatKey)
    /\ \A r \in Range(mfr_yoy) :
           r.Registrations = TotalOf(mfr_all, MakerYearCatKey, MakerYearCatKey(r))
    /\ IsCall("update_maker_yearly") =>
           LET a == result.args
               sel == RowsByYear(mfr_all, a.start_date, a.end_date,
                                 a.categories, a.maker_selected)
           IN  \A r \in Range(result.yearly_data) :
                   r.Registrations = TotalOf(sel, YearOfRow, r.Year)
    /\ IsCall("update_top_makers") =>
           LET a == result.args
               sel == RowsByYear(mfr_all, a.start_date, a.end_date,
                                 a.categories, a.maker_selected)
           IN  \A r \in Range(result.top_makers) :
                   r.Registrations = TotalOf(sel, MakerOf, r.Maker)
    /\ (IsCall("update_maker_dropdown") /\ BothDates(result.args)) =>
           LET a == result.args
               sel == RowsByYear(mfr_all, a.start_date, a.end_date, a.categories, None)
           IN  \A k \in 1..(Len(result.options) - 1) :
                   TotalOf(sel, MakerOf, result.options[k])
                       >= TotalOf(sel, MakerOf, result.options[k + 1])

\* C3 witness: the table holds two rows of one (maker, code, year), both
\* nonzero, and the ranking lists that maker with their sum
C3_Witness ==
    /\ IsCall("update_top_makers")
    /\ \E i, j \in DOMAIN mfr_all :
           /\ i < j
           /\ MakerYearCatKey(mfr_all[i]) = MakerYearCatKey(mfr_all[j])
           /\ mfr_all[i].Registrations > 0 /\ mfr_all[j].Registrations > 0
           /\ \E r \in Range(result.top_makers) :
                  /\ r.Maker = mfr_all[i].Maker
                  /\ r.Registrations >= mfr_all[i].Registrations + mfr_all[j].Registrations
           /\ \E r \in Range(mfr_yoy) :
                  /\ MakerYearCatKey(r) = MakerYearCatKey(mfr_all[i])
                  /\ r.Registrations >= mfr_all[i].Registrations + mfr_all[j].Registrations

\* C5: the ranking lists at most 10 makers, each once, in descending order
\* of their totals, no omitted maker above a listed one, and makers with
\* equal totals in group-key order
C5_StableTopMakers ==
    IsCall("update_top_makers") =>
        LET a == result.args
            top == result.top_makers
            sel == RowsByYear(mfr_all, a.start_date, a.end_date,
                              a.categories, a.maker_selected)
        IN  /\ Len(top) <= 10
            /\ \A i, j \in DOMAIN top : top[i].Maker = top[j].Maker => i = j
            /\ \A k \in 1..(Len(top) - 1) :
                   top[k].Registrations >= top[k + 1].Registrations
            /\ \A m \in GroupKeys(sel, MakerOf) \ { r.Maker : r \in Range(top) } :
                   \A r \in Range(top) : TotalOf(sel, MakerOf, m) <= r.Registrations
            /\ \A i, j \in DOMAIN top :
                   (i < j /\ top[i].Registrations = top[j].Registrations) =>
                       TextLT(top[i].Maker, top[j].Maker)

\* C5 witness: two listed makers have equal totals and the later group
\* key comes first
C5_Witness ==
    /\ IsCall("update_top_makers")
    /\ \E i, j \in DOMAIN result.top_makers :
           /\ i < j
           /\ result.top_makers[i].Registrations = result.top_makers[j].Registrations
           /\ TextLT(result.top_makers[j].Maker, result.top_makers[i].Maker)

\* C2: the returned maker is None exactly when current_maker has no rows
\* with total registrations > 0 under the category and year-range filter
\* (the year range of the dates when both are given), and current_maker
\* otherwise; no maker with a zero total is an option
C2_StaleMakerReset ==
    result.args.fn = "update_maker_dropdown" =>
        LET a == result.args
            sel == IF BothDates(a)
                   THEN RowsByYear(mfr_all, a.start_date, a.end_date, a.categories, None)
                   ELSE SelectSeq(mfr_all, LAMBDA r : CodeSelected(a.categories, r.Category))
            valid(m) == TotalOf(sel, MakerOf, m) > 0
        IN  /\ result.value = None <=> ~valid(a.current_maker)
            /\ result.value # None => result.value = a.current_maker
            /\ \A m \in Range(result.options) : valid(m)

\* C2 witness: a call without dates kept the current maker, whose rows
\* under the category filter sum to zero, and lists it as an option
C2_Witness ==
    /\ result.args.fn = "update_maker_dropdown"
    /\ ~BothDates(result.args)
    /\ result.args.current_maker # None
    /\ result.value = result.args.current_maker
    /\ result.value \in Range(result.options)
    /\ TotalOf(SelectSeq(mfr_all, LAMBDA r :
                   CodeSelected(result.args.categories, r.Category)),
               MakerOf, result.value) = 0

\* update_maker_dropdown called with both dates: the C2 rule
C2_StaleMakerResetWithDates ==
    (result.args.fn = "update_maker_dropdown" /\ BothDates(result.args)) =>
        LET a == result.args
            sel == RowsByYear(mfr_all, a.start_date, a.end_date, a.categories, None)
        IN  /\ result.value = None <=> TotalOf(sel, MakerOf, a.current_maker) <= 0
            /\ result.value # None => result.value = a.current_maker
            /\ \A m \in Range(result.options) : TotalOf(sel, MakerOf, m) > 0

IsKey(x) == x \in DOMAIN CATEGORY_CODE_MAP

\* C4 as amended: for a non-empty list the result has the same length and
\* order; each value is stripped of surrounding blanks, then replaced by its
\* code when the stripped value is a key of CATEGORY_CODE_MAP and passed
\* through as the stripped value otherwise
C4_MapStrippedValues ==
    (IsCall("map_dropdown_categories_to_codes")
     /\ result.args.sel_categories.t = "list"
     /\ result.args.sel_categories.v # <<>>) =>
        LET l == result.args.sel_categories.v
            out == result.codes
        IN  /\ out.t = "list"
            /\ Len(out.v) = Len(l)
            /\ \A i \in DOMAIN l :
                   out.v[i] = IF IsKey(Strip(l[i])) THEN CATEGORY_CODE_MAP[Strip(l[i])]
                              ELSE Strip(l[i])

\* C4 witness: a list with a label, a code, a padded label and an unknown
\* value was mapped
C4_Witness ==
    /\ IsCall("map_dropdown_categories_to_codes")
    /\ result.args.sel_categories = PyList(<<"TWO WHEELER(T)", " TWO WHEELER(T) ", "EV">>)
    /\ result.codes = PyList(<<"2WT", "2WT", "EV">>)

\* C4 as stated: each value that is a key is replaced by its code and each
\* value that is not a key is passed through unchanged
C4_MapUnchangedFallback ==
    (IsCall("map_dropdown_categories_to_codes")
     /\ result.args.sel_categories.t = "list"
     /\ result.args.sel_categories.v # <<>>) =>
        LET l == result.args.sel_categories.v
            out == result.codes
        IN  /\ out.t = "list"
            /\ Len(out.v) = Len(l)
            /\ \A i \in DOMAIN l :
                   out.v[i] = IF IsKey(l[i]) THEN CATEGORY_CODE_MAP[l[i]] ELSE l[i]

-----------------------------------------------------------------------------
(* Inverted date ranges *)

InvertedRange(a) == BothDates(a) /\ DateLT(a.end_date, a.start_date)

\* C11: a query whose start date is later than its end date is rejected as
\* an error; it is not answered with an empty or partial result
C11_InvertedRangeRejected ==
    (/\ result.args.fn \in {"update_main_charts", "update_maker_yearly",
                            "update_top_makers", "update_maker_dropdown"}
     /\ InvertedRange(result.args)) =>
        result.status = "error"

\* C11 witness: a chart query with start after end was answered, with
\* empty frames
C11_Witness ==
    /\ result.args.fn = "update_main_charts"
    /\ InvertedRange(result.args)
    /\ result.status = "ok"
    /\ result.d = <<>> /\ result.d_yoy = <<>> /\ result.qagg = <<>>

-----------------------------------------------------------------------------
(* The loaded tables *)

-----------------------------------------------------------------------------
(* Normalisation and the columns of its input.  A file is seen here as the *)
(* sequence of its column names; a column holds text (dtype object) or     *)
(* numbers.                                                                *)

CategoryFileColumns ==
    << "Vehicle Class", "MonthRaw", "Category", "Date", "Year", "Month",
       "Registrations" >>

ManufacturerFileColumns ==
    << "Maker", "Manufacturer", "State", "Segment", "Category", "Year",
       "Registrations" >>

\* the columns of all whose position is in S, in file order
PickColumns(all, S) ==
    LET F[i \in 0..Len(all)] ==
            IF i = 0 THEN <<>>
            ELSE IF i \in S THEN Append(F[i - 1], all[i]) ELSE F[i - 1]
    IN  F[Len(all)]

\* df[c].dtype == object, once Date has been parsed
IsTextColumn(c) ==
    c \in {"Vehicle Class", "MonthRaw", "Category", "Maker", "Manufacturer",
           "State", "Segment"}

\* df.rename(columns={from: to})
RenameColumn(cols, from, to) ==
    Rows([i \in DOMAIN cols |-> IF cols[i] = from THEN to ELSE cols[i]])

Raised(fn, cols, error) ==
    [args |-> [fn |-> fn, columns |-> cols], status |-> error, columns |-> <<>>]

Returned(fn, cols, out) ==
    [args |-> [fn |-> fn, columns |-> cols], status |-> "ok", columns |-> out]

\* prepare_category_monthly on the columns of its input: the columns of the
\* frame it returns, or the exception it ends with
PrepareCategoryColumns(cols) ==
    LET fn == "prepare_category_monthly"
        has(c) == c \in Range(cols)
        dated == IF has("Date") THEN cols ELSE Append(cols, "Date")
        text_cols == SelectSeq(dated, IsTextColumn)
        named == IF ~has("Category") /\ text_cols # <<>>
                 THEN RenameColumn(dated, text_cols[1], "Category")
                 ELSE dated
    IN  IF ~has("Date") /\ ~has("MonthRaw") /\ ~(has("Year") /\ has("Month"))
        THEN Raised(fn, cols, "ValueError")
        ELSE IF ~has("Registrations") THEN Raised(fn, cols, "KeyError")
        ELSE IF "Category" \notin Range(named) THEN Raised(fn, cols, "KeyError")
        ELSE Returned(fn, cols, named)

MakerAliases == << "Maker", "Manufacturer" >>

\* any(tok in c.lower() for tok in ['2w', '3w', '4w', 'category', 'segment'])
HasCategoryToken(c) == c \in {"Category", "Segment"}

\* prepare_manufacturers on the columns of the concatenated files
PrepareManufacturerColumns(cols) ==
    LET fn == "prepare_manufacturers"
        aliases == SelectSeq(MakerAliases, LAMBDA c : c \in Range(cols))
        text_cols == SelectSeq(cols, IsTextColumn)
        mdf == IF aliases # <<>> THEN RenameColumn(cols, aliases[1], "Maker")
               ELSE IF text_cols # <<>>
                    THEN RenameColumn(cols, text_cols[1], "Maker")
                    ELSE cols
        tokens == SelectSeq(mdf, HasCategoryToken)
        out == IF "Category" \in Range(mdf) \/ tokens = <<>> THEN mdf
               ELSE RenameColumn(mdf, tokens[1], "Category")
    IN  Returned(fn, cols, out)

normalize_category ==
    /\ result = Idle
    /\ \E S \in SUBSET DOMAIN CategoryFileColumns :
          result' = PrepareCategoryColumns(PickColumns(CategoryFileColumns, S))
    /\ UNCHANGED <<tables, maker_filter>>

normalize_manufacturers ==
    /\ result = Idle
    /\ \E S \in SUBSET DOMAIN ManufacturerFileColumns :
          result' = PrepareManufacturerColumns(
                        PickColumns(ManufacturerFileColumns, S))
    /\ UNCHANGED <<tables, maker_filter>>

InitNorm == Load(FixedCatRaw, FixedMfrRaw)

NextNorm == normalize_category \/ normalize_manufacturers \/ Respond

SpecNorm == InitNorm /\ [][NextNorm]_vars

NoDateLike(cols) ==
    /\ "Date" \notin Range(cols)
    /\ "MonthRaw" \notin Range(cols)
    /\ ~("Year" \in Range(cols) /\ "Month" \in Range(cols))

NoText(cols) == \A i \in DOMAIN cols : ~IsTextColumn(cols[i])

\* C13: normalisation ends with an error and returns no table when the
\* category file has no date-like column, or no Category and no text
\* column, and when the manufacturer file has no maker alias and no text
\* column (any exception is counted as the error here)
C13_MissingColumnIsError ==
    /\ (/\ result.args.fn = "prepare_category_monthly"
        /\ \/ NoDateLike(result.args.columns)
           \/ ("Category" \notin Range(result.args.columns)
               /\ NoText(result.args.columns))) =>
           result.status # "ok" /\ result.columns = <<>>
    /\ (/\ result.args.fn = "prepare_manufacturers"
        /\ \A i \in DOMAIN MakerAliases :
               MakerAliases[i] \notin Range(result.args.columns)
        /\ NoText(result.args.columns)) =>
           result.status # "ok" /\ result.columns = <<>>

\* C13 witness: prepare_manufacturers returned a table without a Maker
\* column for a file that has only Year and Registrations
C13_Witness ==
    /\ result.args.fn = "prepare_manufacturers"
    /\ result.args.columns = <<"Year", "Registrations">>
    /\ result.status = "ok"
    /\ "Maker" \notin Range(result.columns)

\* the category side of C13 alone
C13_CategorySide ==
    (/\ result.args.fn = "prepare_category_monthly"
     /\ \/ NoDateLike(result.args.columns)
        \/ ("Category" \notin Range(result.args.columns)
            /\ NoText(result.args.columns))) =>
        result.status # "ok" /\ result.columns = <<>>

-----------------------------------------------------------------------------
(* Manufacturer YoY across category codes *)

\* the years before r.Year in which r's maker has a row of the table
EarlierYears(table, r) ==
    { q.Year : q \in { x \in Range(table) : x.Maker = r.Maker /\ x.Year < r.Year } }

\* x is the change of registrations cur against prev
IsChangeAgainst(x, cur, prev) ==
    IF prev # 0 THEN FloatEq(x, ChangeFormula(cur, prev))
    ELSE IF cur # 0 THEN x.k = "inf" ELSE x.k = "nan"

\* C14: every defined YoY_pct of a row of compute_manufacturer_yoy is the
\* change against a row of the same maker in the closest earlier year, and
\* a row of a maker's first year has none
C14_MakerYoYAgainstEarlierYear ==
    \A r \in Range(mfr_yoy) :
        ~IsNull(r.YoY_pct) =>
            /\ EarlierYears(mfr_yoy, r) # {}
            /\ \E q \in Range(mfr_yoy) :
                   /\ q.Maker = r.Maker
                   /\ q.Year \in EarlierYears(mfr_yoy, r)
                   /\ \A y \in EarlierYears(mfr_yoy, r) : y <= q.Year
                   /\ IsChangeAgainst(r.YoY_pct, r.Registrations, q.Registrations)

\* C14 witness: two rows of one maker and one year, of different category
\* codes, and the second holds a YoY_pct computed against the first
C14_Witness ==
    \E i \in DOMAIN mfr_yoy :
        /\ i > 1
        /\ mfr_yoy[i - 1].Maker = mfr_yoy[i].Maker
        /\ mfr_yoy[i - 1].Year = mfr_yoy[i].Year
        /\ mfr_yoy[i - 1].Category # mfr_yoy[i].Category
        /\ mfr_yoy[i - 1].Registrations > 0
        /\ mfr_yoy[i].YoY_pct.k = "num"
        /\ FloatEq(mfr_yoy[i].YoY_pct,
                   ChangeFormula(mfr_yoy[i].Registrations,
                                 mfr_yoy[i - 1].Registrations))

\* C14 for the makers that have one category code per year
C14_OneCodePerYear ==
    \A r \in Range(mfr_yoy) :
        ((\A a, b \in Range(mfr_yoy) :
              (a.Maker = r.Maker /\ b.Maker = r.Maker /\ a.Year = b.Year) => a = b)
         /\ ~IsNull(r.YoY_pct)) =>
            /\ EarlierYears(mfr_yoy, r) # {}
            /\ \E q \in Range(mfr_yoy) :
                   /\ q.Maker = r.Maker
                   /\ q.Year \in EarlierYears(mfr_yoy, r)
                   /\ \A y \in EarlierYears(mfr_yoy, r) : y <= q.Year
                   /\ IsChangeAgainst(r.YoY_pct, r.Registrations, q.Registrations)

-----------------------------------------------------------------------------
(* The maker selection over a sequence of dropdown refreshes *)

\* C15: every refresh returns None or the maker it was given, and a maker
\* it returns is one of the returned options; the refresh stores what it
\* returns, and a selection that is None stays None through every step
\* that is not the user selecting a maker
C15_ClearedSelectionStaysCleared ==
    /\ [](result.args.fn = "update_maker_dropdown" =>
              /\ result.value \in {None, result.args.current_maker}
              /\ result.value # None => result.value \in Range(result.options)
              /\ maker_filter = result.value)
    /\ [][(maker_filter = None /\ ~SelectMaker) => maker_filter' = None]_vars

\* C15 witness: a refresh that was given no maker returned None although
\* its options hold makers
C15_Witness ==
    /\ result.args.fn = "update_maker_dropdown"
    /\ result.args.current_maker = None
    /\ result.options # <<>>
    /\ result.value = None
    /\ maker_filter = None

-----------------------------------------------------------------------------
(* Monthly YoY of a filtered range *)

\* C16: the monthly YoY series of update_main_charts holds the filtered
\* rows, and in every category its first 12 rows have a null YoY_pct, also
\* where the loaded table holds a computed one for the same row; from the
\* 13th row on YoY_pct is the change against the row 12 places earlier in
\* the filtered range
C16_YoYFromFilteredRange ==
    IsCall("update_main_charts") =>
        /\ { <<r.Category, r.Date, r.Registrations>> : r \in Range(result.d_yoy) }
               = { <<r.Category, r.Date, r.Registrations>> : r \in Range(result.d) }
        /\ Len(result.d_yoy) = Len(result.d)
        /\ \A g \in GroupKeys(result.d_yoy, CategoryOf) :
               LET grp == GroupRows(result.d_yoy, CategoryOf, g)
               IN  \A t \in DOMAIN grp :
                       IF t <= 12 THEN IsNull(grp[t].YoY_pct)
                       ELSE IsChangeAgainst(grp[t].YoY_pct, grp[t].Registrations,
                                            grp[t - 12].Registrations)

\* C16 witness: a returned row has a null YoY_pct while the loaded table
\* holds a computed YoY_pct for the same category and date
C16_Witness ==
    /\ IsCall("update_main_charts")
    /\ \E r \in Range(result.d_yoy), q \in Range(cat_month_long) :
           /\ q.Category = r.Category /\ q.Date = r.Date
           /\ q.YoY_pct.k = "num"
           /\ IsNull(r.YoY_pct)

====
